---- MODULE Spec2Model ----
(***************************************************************************)
(* vault-tools: the Vault class (src/vault.py) and the migrate-and-destroy *)
(* command (src/cli.py) over a KV version 2 secrets engine.                *)
(*                                                                         *)
(* A path is a sequence of segments ("a/b" is <<"a", "b">>, the engine's   *)
(* root is <<>>).  A secret name is a sequence of characters, so that the  *)
(* anchored prefix match of re.match can be computed.  A Secret is a       *)
(* function from names to values.  A Python dict keyed by path             *)
(* (SecretsByPath) keeps insertion order: it is a sequence of              *)
(* [path, secret] records with distinct paths.                             *)
(*                                                                         *)
(* The store is the engine's content: for every path that has metadata,    *)
(* the sequence of its versions, version i at index i.  It is a tree: no   *)
(* path that holds a secret is a prefix of another one.                    *)
(*                                                                         *)
(* Every call a method issues on self.client is appended to a log, tagged  *)
(* with the Vault method the command called.                               *)
(***************************************************************************)
EXTENDS Naturals, Sequences, FiniteSets, TLC

VARIABLES store, dry_run, files, last, nops

vars == <<store, dry_run, files, last, nops>>

\* Number of commands run in one behaviour.
MaxOps == 1

\* Longest version chain of a leaf in an initial store.
MaxVersions == 3

---------------------------------------------------------------------------
(* Data *)

\* Segments in the order in which the engine lists keys (sorted).
SegOrder == <<"a", "b", "n", "x", "y", "z">>

Range(s) == {s[i] : i \in DOMAIN s}

IsPrefix(p, q) == Len(p) <= Len(q) /\ SubSeq(q, 1, Len(p)) = p

IsProperPrefix(p, q) == Len(p) < Len(q) /\ SubSeq(q, 1, Len(p)) = p

\* The empty Secret, {}.
EmptySecret == <<>>

\* Mutant: the left operand wins on a shared name.
UnionLeft(a, b) ==
    [n \in (DOMAIN a) \cup (DOMAIN b) |-> IF n \in DOMAIN a THEN a[n] ELSE b[n]]

\* Python's dict union a | b: the right operand wins on a shared name.
Union(a, b) ==
    [n \in (DOMAIN a) \cup (DOMAIN b) |-> IF n \in DOMAIN b THEN b[n] ELSE a[n]]

\* The keys of a SecretsByPath dict.
DictKeys(d) == {d[i].path : i \in DOMAIN d}

\* d.get(k, default)
DictGet(d, k, default) ==
    IF k \in DictKeys(d)
    THEN (CHOOSE e \in Range(d) : e.path = k).secret
    ELSE default

\* d[k] = v: an existing key keeps its place, a new key goes last.
DictSet(d, k, v) ==
    IF k \in DictKeys(d)
    THEN [i \in DOMAIN d |-> IF d[i].path = k THEN [path |-> k, secret |-> v] ELSE d[i]]
    ELSE Append(d, [path |-> k, secret |-> v])

\* One call issued on self.client.
Call(by, call, path) == [by |-> by, call |-> call, path |-> path]

---------------------------------------------------------------------------
(* The engine, as the calls of src/vault.py use it *)

\* client.read_secret / read_secret_version with raise_on_deleted_version
\* False answer a deleted version with its metadata; version 0 asks for the
\* latest version.
VersionRead(chain, version) == IF version = 0 THEN Len(chain) ELSE version

\* Mutant: the new version keeps the names of the latest one.
WriteVersionMerged(st, path, secret) ==
    LET new == [data |-> IF path \in DOMAIN st
                         THEN Union(st[path][Len(st[path])].data, secret)
                         ELSE secret,
                deleted |-> FALSE]
    IN  [p \in (DOMAIN st) \cup {path} |->
            IF p = path
            THEN (IF path \in DOMAIN st THEN Append(st[path], new) ELSE <<new>>)
            ELSE st[p]]

\* client.create_or_update_secret: a new latest version holding the secret.
WriteVersion(st, path, secret) ==
    LET new == [data |-> secret, deleted |-> FALSE]
    IN  [p \in (DOMAIN st) \cup {path} |->
            IF p = path
            THEN (IF path \in DOMAIN st THEN Append(st[path], new) ELSE <<new>>)
            ELSE st[p]]

\* client.delete_latest_version_of_secret: the latest version gets a
\* deletion time.
DeleteLatest(st, path) ==
    IF path \in DOMAIN st
    THEN [st EXCEPT ![path] = [@ EXCEPT ![Len(@)] = [@ EXCEPT !.deleted = TRUE]]]
    ELSE st

\* Mutant: the paths beside the path, in the same folder, go with it.
DestroyAllBeside(st, path) ==
    [p \in {q \in DOMAIN st :
               ~(Len(q) >= Len(path) /\ Len(path) >= 1
                   /\ SubSeq(q, 1, Len(path) - 1) = SubSeq(path, 1, Len(path) - 1))} |->
        st[p]]

\* client.delete_metadata_and_all_versions: nothing is left at the path.
DestroyAll(st, path) == [p \in (DOMAIN st) \ {path} |-> st[p]]

\* The keys client.list_secrets answers for a path: the next segment of
\* every stored path below it.
ChildKeys(st, path) == {p[Len(path) + 1] : p \in {q \in DOMAIN st : IsProperPrefix(path, q)}}

---------------------------------------------------------------------------
(* Vault._find_valid_version, Vault._fetch, Vault.get *)

\* Mutant: the response in hand is returned, deleted or not.
WalkBackNone(chain, v, seen, log, c) ==
    [tag |-> "secret", data |-> chain[v].data, log |-> log]

RECURSIVE WalkBack(_, _, _, _, _)
\* The while loop of _find_valid_version: `v' is the version of the response
\* in hand, `seen' the versions already answered in this loop.  A response
\* seen before means the loop never ends.
WalkBack(chain, v, seen, log, c) ==
    IF ~chain[v].deleted
    THEN [tag |-> "secret", data |-> chain[v].data, log |-> log]
    ELSE LET previous_version == v - 1
             next == VersionRead(chain, previous_version)
         IN  IF next \in seen
             THEN [tag |-> "loop", data |-> EmptySecret, log |-> Append(log, c)]
             ELSE WalkBack(chain, next, seen \cup {next}, Append(log, c), c)

FindValidVersion(st, path, by) ==
    LET c == Call(by, "read", path)
    IN  IF path = <<>> \/ path \notin DOMAIN st
        THEN [tag |-> "invalid", data |-> EmptySecret, log |-> <<c>>]
        ELSE WalkBack(st[path], Len(st[path]), {Len(st[path])}, <<c>>, c)

\* Mutant: a path that cannot be listed is a folder without children.
FetchResultNoExit(r, keys, path, by) ==
    CASE r.tag = "secret" ->
           [tag |-> "secret", data |-> r.data, list |-> <<>>, log |-> r.log]
      [] r.tag = "loop" ->
           [tag |-> "loop", data |-> EmptySecret, list |-> <<>>, log |-> r.log]
      [] OTHER ->
           [tag |-> "list", data |-> EmptySecret,
            list |-> [i \in DOMAIN keys |-> Append(path, keys[i])],
            log |-> Append(r.log, Call(by, "list", path))]

\* The two try blocks of _fetch, given what _find_valid_version did (r) and
\* the keys list_secrets answers: a Secret, a list of paths one level below,
\* SystemExit ("exit"), or no return ("loop").
FetchResult(r, keys, path, by) ==
    CASE r.tag = "secret" ->
           [tag |-> "secret", data |-> r.data, list |-> <<>>, log |-> r.log]
      [] r.tag = "loop" ->
           [tag |-> "loop", data |-> EmptySecret, list |-> <<>>, log |-> r.log]
      [] r.tag = "invalid" /\ keys = <<>> ->
           [tag |-> "exit", data |-> EmptySecret, list |-> <<>>,
            log |-> Append(r.log, Call(by, "list", path))]
      [] OTHER ->
           [tag |-> "list", data |-> EmptySecret,
            list |-> [i \in DOMAIN keys |-> Append(path, keys[i])],
            log |-> Append(r.log, Call(by, "list", path))]

Fetch(st, path, by) ==
    FetchResult(FindValidVersion(st, path, by),
                SelectSeq(SegOrder, LAMBDA s : s \in ChildKeys(st, path)), path, by)

RECURSIVE RecursiveGet(_, _, _, _)
RECURSIVE GetEach(_, _, _, _, _)
RECURSIVE GetNext(_, _, _, _, _)
\* The body of _recursive_get on the result of _fetch: `acc' holds
\* secrets_by_path and the calls so far.
GetResult(st, path, acc, by, result) ==
    CASE result.tag = "secret" ->
           [acc EXCEPT !.dict = DictSet(acc.dict, path, result.data),
                       !.log = acc.log \o result.log]
      [] result.tag = "list" ->
           GetEach(st, result.list, 1, [acc EXCEPT !.log = acc.log \o result.log], by)
      [] OTHER ->
           [acc EXCEPT !.tag = result.tag, !.log = acc.log \o result.log, !.bad = path]

RecursiveGet(st, path, acc, by) == GetResult(st, path, acc, by, Fetch(st, path, by))

\* for _path in result: _recursive_get(_path, secrets_by_path)
GetEach(st, list, i, acc, by) ==
    IF i > Len(list) THEN acc ELSE GetNext(st, list, i, by, RecursiveGet(st, list[i], acc, by))

\* Mutant: the loop ends after the first child.
GetNextStops(st, list, i, by, r) == r

\* An exception (or no return) in one child ends the loop.
GetNext(st, list, i, by, r) ==
    IF r.tag # "ok" THEN r ELSE GetEach(st, list, i + 1, r, by)

\* Vault.get: tag "ok" with the dict, "exit" (SystemExit, Invalid path: bad)
\* or "loop" (the call never returns).
Get(st, path, by) ==
    RecursiveGet(st, path, [tag |-> "ok", dict |-> <<>>, log |-> <<>>, bad |-> <<>>], by)

---------------------------------------------------------------------------
(* Vault._make_path *)

\* A regular expression is a sequence of atoms: a character, "." (any
\* character) or ".*" (any characters).  re.match anchors at the start of the
\* name only: atoms i.. of the pattern match the name from position j on.
RECURSIVE MatchAt(_, _, _, _)
MatchAt(pattern, i, name, j) ==
    IF i > Len(pattern)
    THEN TRUE
    ELSE CASE pattern[i] = ".*" ->
                \E k \in j..(Len(name) + 1) : MatchAt(pattern, i + 1, name, k)
           [] pattern[i] = "." ->
                j <= Len(name) /\ MatchAt(pattern, i + 1, name, j + 1)
           [] OTHER ->
                j <= Len(name) /\ name[j] = pattern[i]
                    /\ MatchAt(pattern, i + 1, name, j + 1)

\* "|".join(subscheme["by"]): the alternatives of the joined expression.  The
\* join of no pattern is the empty string, one alternative that is the empty
\* expression.
JoinBy(by) == IF by = <<>> THEN << <<>> >> ELSE by

\* re.match(pattern, secret_name)
ReMatch(alternatives, name) ==
    \E k \in DOMAIN alternatives : MatchAt(alternatives[k], 1, name, 1)

\* The return value None, and a returned path.
None == [some |-> FALSE, path |-> <<>>]

Some(path) == [some |-> TRUE, path |-> path]

\* The truth value `if path := ...' tests: None and the empty string are false.
Truthy(r) == r.some /\ r.path # <<>>

RECURSIVE MakePathFrom(_, _, _, _)
\* for subscheme in subschemes: the first match returns.
MakePathFrom(new_path, secret_name, subschemes, i) ==
    IF i > Len(subschemes)
    THEN None
    ELSE IF ReMatch(JoinBy(subschemes[i].by), secret_name)
         THEN Some(new_path \o subschemes[i].to)
         ELSE MakePathFrom(new_path, secret_name, subschemes, i + 1)

\* Absent subschemes (None) and an empty list are both false: <<>> is either.
MakePath(new_path, secret_name, subschemes) ==
    IF subschemes # <<>>
    THEN MakePathFrom(new_path, secret_name, subschemes, 1)
    ELSE Some(new_path)

---------------------------------------------------------------------------
(* Vault.set, add, delete, destroy, migrate, backup; cli migrate_and_destroy *)

\* Names in the order a Secret read from the engine lists its items.
NameOrder == << <<"c", "a">>, <<"c", "b">>, <<"d">> >>

Items(secret) == SelectSeq(NameOrder, LAMBDA n : n \in DOMAIN secret)

\* What a method call did: the store it left, the calls it issued, how it
\* ended ("ok", "exit": SystemExit, "invalidpath": InvalidPath raised,
\* "fileexists": FileExistsError, "loop": it never returned), and what it
\* returned or staged.
Exec(st, log, outcome, result, staged, bad) ==
    [store |-> st, log |-> log, outcome |-> outcome, result |-> result,
     staged |-> staged, bad |-> bad]

\* A get that did not return ends the method that called it; `log' holds the
\* calls issued before the get.
Failed(st, log, g) == Exec(st, log \o g.log, g.tag, <<>>, <<>>, g.bad)

Returned(st, g) ==
    IF g.tag # "ok" THEN Failed(st, <<>>, g) ELSE Exec(st, g.log, "ok", g.dict, <<>>, <<>>)

VaultGet(st, path) == Returned(st, Get(st, path, "get"))

\* Mutant: set writes whatever the flag says.
VaultSetAlways(st, dry, path, secret, by) ==
    Exec(WriteVersion(st, path, secret), <<Call(by, "write", path)>>, "ok", <<>>, <<>>, <<>>)

\* Mutant: set reads the path and writes the given secret over what it read.
VaultSetMerging(st, dry, path, secret, by) ==
    IF ~dry
    THEN Exec(WriteVersionMerged(st, path, secret),
              <<Call(by, "read", path), Call(by, "write", path)>>, "ok", <<>>, <<>>, <<>>)
    ELSE Exec(st, <<>>, "ok", <<>>, <<>>, <<>>)

VaultSet(st, dry, path, secret, by) ==
    IF ~dry
    THEN Exec(WriteVersion(st, path, secret), <<Call(by, "write", path)>>, "ok",
              <<>>, <<>>, <<>>)
    ELSE Exec(st, <<>>, "ok", <<>>, <<>>, <<>>)

\* A method call m after the calls of `log'.
After(log, m) == [m EXCEPT !.log = log \o m.log]

\* self.set under `if not self.dry_run', then the dry-run logging: `staged'
\* holds {path: secret}, the merged secret.
AddSet(st, dry, path, secret, g) ==
    IF ~dry
    THEN [After(g.log, VaultSet(st, dry, path, secret, "add"))
             EXCEPT !.staged = <<[path |-> path, secret |-> secret]>>]
    ELSE Exec(st, g.log, "ok", <<>>, <<[path |-> path, secret |-> secret]>>, <<>>)

\* Mutant: add takes a get that did not return as an empty dict and goes on.
AddMergedCreates(st, dry, path, secret, g) ==
    AddSet(st, dry, path, Union(DictGet(g.dict, path, EmptySecret), secret), g)

\* The body of add once get returned g.
AddMerged(st, dry, path, secret, g) ==
    IF g.tag # "ok"
    THEN Failed(st, <<>>, g)
    ELSE AddSet(st, dry, path, Union(DictGet(g.dict, path, EmptySecret), secret), g)

VaultAdd(st, dry, path, secret) == AddMerged(st, dry, path, secret, Get(st, path, "add"))

RECURSIVE RemoveEachRereads(_, _, _, _, _, _)
\* Mutant: every path is read again before it is removed.
RemoveEachRereads(st, dict, i, log, call, result) ==
    IF i > Len(dict)
    THEN Exec(st, log, "ok", result, <<>>, <<>>)
    ELSE RemoveEachRereads(IF call = "delete"
                           THEN DeleteLatest(st, dict[i].path)
                           ELSE DestroyAll(st, dict[i].path),
                           dict, i + 1,
                           log \o <<Call(call, "read", dict[i].path),
                                    Call(call, call, dict[i].path)>>,
                           call, result)

RECURSIVE RemoveEach(_, _, _, _, _, _)
\* for sub_path in self.get(path): one delete ("delete") or destroy
\* ("destroy") call per key, in the dict's order.
RemoveEach(st, dict, i, log, call, result) ==
    IF i > Len(dict)
    THEN Exec(st, log, "ok", result, <<>>, <<>>)
    ELSE RemoveEach(IF call = "delete"
                    THEN DeleteLatest(st, dict[i].path)
                    ELSE DestroyAll(st, dict[i].path),
                    dict, i + 1, Append(log, Call(call, call, dict[i].path)), call, result)

\* delete and destroy after the recursive check: the dry run logs what get
\* returned, the real run removes it.
RemoveGot(st, dry, log, call, g) ==
    IF g.tag # "ok"
    THEN Failed(st, log, g)
    ELSE IF dry
         THEN Exec(st, log \o g.log, "ok", g.dict, <<>>, <<>>)
         ELSE RemoveEach(st, g.dict, 1, log \o g.log, call, g.dict)

\* `if not recursive and isinstance(self._fetch(path), list)', f being what
\* _fetch did.
RemoveChecked(st, dry, path, call, f) ==
    CASE f.tag = "list" -> Exec(st, f.log, "invalidpath", <<>>, <<>>, path)
      [] f.tag \in {"exit", "loop"} -> Exec(st, f.log, f.tag, <<>>, <<>>, path)
      [] OTHER -> RemoveGot(st, dry, f.log, call, Get(st, path, call))

\* Mutant: the recursive flag is not looked at.
RemoveUnchecked(st, dry, path, recursive, call) ==
    RemoveGot(st, dry, <<>>, call, Get(st, path, call))

\* Vault.delete (call = "delete") and Vault.destroy (call = "destroy"), which
\* differ in the client call only.
Remove(st, dry, path, recursive, call) ==
    IF ~recursive
    THEN RemoveChecked(st, dry, path, call, Fetch(st, path, call))
    ELSE RemoveGot(st, dry, <<>>, call, Get(st, path, call))

VaultDelete(st, dry, path, recursive) == Remove(st, dry, path, recursive, "delete")

VaultDestroy(st, dry, path, recursive) == Remove(st, dry, path, recursive, "destroy")

\* Mutant: every routed item becomes an entry of its own, and a write.
StageItemApart(staged, path, name, value) ==
    IF Truthy(path)
    THEN Append(staged, [path |-> path.path, secret |-> (name :> value)])
    ELSE staged

\* Mutant: a name that is staged keeps the value staged first.
StageItemFirst(staged, path, name, value) ==
    IF Truthy(path)
    THEN DictSet(staged, path.path,
                 Union((name :> value), DictGet(staged, path.path, EmptySecret)))
    ELSE staged

\* secrets_by_path[path] = secrets_by_path.get(path, {}) | {name: value},
\* under `if path := ...'.
StageItem(staged, path, name, value) ==
    IF Truthy(path)
    THEN DictSet(staged, path.path,
                 Union(DictGet(staged, path.path, EmptySecret), (name :> value)))
    ELSE staged

RECURSIVE StageItems(_, _, _, _, _, _)
\* for secret_name, secret_value in secrets.items()
StageItems(staged, secrets, names, i, new_path, subschemes) ==
    IF i > Len(names)
    THEN staged
    ELSE StageItems(StageItem(staged, MakePath(new_path, names[i], subschemes),
                              names[i], secrets[names[i]]),
                    secrets, names, i + 1, new_path, subschemes)

RECURSIVE StageSecrets(_, _, _, _, _)
\* for _, secrets in self.get(path=old_path, loginfo=False).items()
StageSecrets(staged, dict, i, new_path, subschemes) ==
    IF i > Len(dict)
    THEN staged
    ELSE StageSecrets(StageItems(staged, dict[i].secret, Items(dict[i].secret), 1,
                                 new_path, subschemes),
                      dict, i + 1, new_path, subschemes)

RECURSIVE SetEach(_, _, _, _, _, _)
RECURSIVE SetNext(_, _, _, _, _)
\* for path, secret in secrets_by_path.items(): self.set(path, secret), the
\* flag being off.
SetEach(st, staged, i, log, by, result) ==
    IF i > Len(staged)
    THEN Exec(st, log, "ok", result, staged, <<>>)
    ELSE SetNext(staged, i, by, result,
                 After(log, VaultSet(st, FALSE, staged[i].path, staged[i].secret, by)))

SetNext(staged, i, by, result, s) == SetEach(s.store, staged, i + 1, s.log, by, result)

\* migrate once the secrets are staged.
MigrateStaged(st, dry, g, secrets_by_path) ==
    IF dry
    THEN Exec(st, g.log, "ok", g.dict, secrets_by_path, <<>>)
    ELSE SetEach(st, secrets_by_path, 1, g.log, "migrate", g.dict)

\* migrate once get returned g.
MigrateGot(st, dry, new_path, subschemes, g) ==
    IF g.tag # "ok"
    THEN Failed(st, <<>>, g)
    ELSE MigrateStaged(st, dry, g, StageSecrets(<<>>, g.dict, 1, new_path, subschemes))

VaultMigrate(st, dry, old_path, new_path, subschemes) ==
    MigrateGot(st, dry, new_path, subschemes, Get(st, old_path, "migrate"))

\* backup once get returned g: open(output_file, "x") fails on a file that
\* exists.
BackupGot(st, fs, output_file, g) ==
    IF g.tag # "ok"
    THEN [exec |-> Failed(st, <<>>, g), files |-> fs]
    ELSE IF fs[output_file].exists
         THEN [exec |-> Exec(st, g.log, "fileexists", g.dict, <<>>, <<>>), files |-> fs]
         ELSE [exec |-> Exec(st, g.log, "ok", g.dict, <<>>, <<>>),
               files |-> [fs EXCEPT ![output_file] = [exists |-> TRUE, content |-> g.dict]]]

VaultBackup(st, fs, path, output_file) ==
    BackupGot(st, fs, output_file, Get(st, path, "backup"))

RECURSIVE MigrateAll(_, _, _, _)
RECURSIVE MigrateNext(_, _, _)
\* The first loop of migrate_and_destroy.
MigrateAll(st, schemes, i, log) ==
    IF i > Len(schemes)
    THEN Exec(st, log, "ok", <<>>, <<>>, <<>>)
    ELSE MigrateNext(schemes, i,
                     After(log, VaultMigrate(st, FALSE, schemes[i].from, schemes[i].to,
                                             schemes[i].subschemes)))

\* An exception in one migrate ends the command.
MigrateNext(schemes, i, m) ==
    IF m.outcome # "ok" THEN m ELSE MigrateAll(m.store, schemes, i + 1, m.log)

RECURSIVE DestroyEach(_, _, _, _)
RECURSIVE DestroyNext(_, _, _)
\* The second loop: destroy(path=scheme["from"]), recursive by default.
DestroyEach(st, schemes, i, log) ==
    IF i > Len(schemes)
    THEN Exec(st, log, "ok", <<>>, <<>>, <<>>)
    ELSE DestroyNext(schemes, i, After(log, VaultDestroy(st, FALSE, schemes[i].from, TRUE)))

\* Mutant: the second loop ends after its first destroy.
DestroyNextStops(schemes, i, x) == x

DestroyNext(schemes, i, x) ==
    IF x.outcome # "ok" THEN x ELSE DestroyEach(x.store, schemes, i + 1, x.log)

\* The second loop runs once the first has ended without an exception.
DestroyAfter(schemes, m) ==
    IF m.outcome # "ok" THEN m ELSE DestroyEach(m.store, schemes, 1, m.log)

\* Mutant: one loop, each scheme destroyed as soon as it is migrated.
MigrateThenDestroy(scheme, m) ==
    IF m.outcome # "ok" THEN m ELSE After(m.log, VaultDestroy(m.store, FALSE, scheme.from, TRUE))

RECURSIVE InterleavedFrom(_, _, _, _)
RECURSIVE InterleavedNext(_, _, _)
InterleavedFrom(st, schemes, i, log) ==
    IF i > Len(schemes)
    THEN Exec(st, log, "ok", <<>>, <<>>, <<>>)
    ELSE InterleavedNext(schemes, i,
             MigrateThenDestroy(schemes[i],
                 After(log, VaultMigrate(st, FALSE, schemes[i].from, schemes[i].to,
                                         schemes[i].subschemes))))

InterleavedNext(schemes, i, x) ==
    IF x.outcome # "ok" THEN x ELSE InterleavedFrom(x.store, schemes, i + 1, x.log)

MigrateAndDestroyInterleaved(st, schemes) == InterleavedFrom(st, schemes, 1, <<>>)

\* Mutant: the destroys remove what was below the source paths before the
\* migrates wrote; m is what the first loop did, x the second loop on the
\* store as it was.
SnapshotDestroyed(st, m, x) ==
    IF x.outcome # "ok"
    THEN x
    ELSE [x EXCEPT !.store =
             [p \in (DOMAIN x.store) \cup ((DOMAIN m.store) \ (DOMAIN st)) |->
                 IF p \in DOMAIN x.store THEN x.store[p] ELSE m.store[p]]]

SnapshotAfter(st, schemes, m) ==
    IF m.outcome # "ok" THEN m ELSE SnapshotDestroyed(st, m, DestroyEach(st, schemes, 1, m.log))

MigrateAndDestroySnapshot(st, schemes) ==
    SnapshotAfter(st, schemes, MigrateAll(st, schemes, 1, <<>>))

\* cli migrate_and_destroy, on a Vault whose dry_run is the class default.
MigrateAndDestroyCmd(st, schemes) == DestroyAfter(schemes, MigrateAll(st, schemes, 1, <<>>))

---------------------------------------------------------------------------
(* Initial stores and command arguments *)

NameCA == <<"c", "a">>

NameCB == <<"c", "b">>

NameD == <<"d">>

SecretA == (NameCA :> "1") @@ (NameCB :> "2")

SecretB == (NameCA :> "3") @@ (NameD :> "4")

SecretC == (NameD :> "5") @@ (NameCB :> "6")

Live(secret) == <<[data |-> secret, deleted |-> FALSE]>>

\* Stores of live single-version leaves, of depth one to three.
TreeStores ==
    { <<>>,
      (<<"a">> :> Live(SecretA)),
      (<<"a", "a">> :> Live(SecretA)) @@ (<<"a", "b">> :> Live(SecretB)),
      (<<"a", "a">> :> Live(SecretA)) @@ (<<"a", "b">> :> Live(SecretB))
          @@ (<<"b">> :> Live(SecretC)),
      (<<"a", "a", "a">> :> Live(SecretA)) @@ (<<"a", "a", "b">> :> Live(SecretC))
          @@ (<<"a", "b">> :> Live(SecretB)) }

\* The value version i of a chain holds.
VersionValue == <<"v1", "v2", "v3", "v4", "v5">>

VersionData(i) == (NameCA :> VersionValue[i])

\* Every chain of one to MaxVersions versions, each deleted or not.
Chains ==
    UNION { { [i \in 1..n |-> [data |-> VersionData(i), deleted |-> f[i]]] :
                f \in [1..n -> BOOLEAN] } : n \in 1..MaxVersions }

\* A chain at a/a beside the live leaf a/b.
ChainStores == { (<<"a", "a">> :> c) @@ (<<"a", "b">> :> Live(SecretB)) : c \in Chains }

InitStores == TreeStores \cup ChainStores

\* No secret is stored at a prefix of another secret's path.
ProperTree(st) == \A p, q \in DOMAIN st : ~IsProperPrefix(p, q)

ArgPaths == {<<>>, <<"a">>, <<"a", "a">>, <<"a", "b">>, <<"b">>, <<"z">>}

NewPaths == {<<"n">>, <<"a">>}

ArgSecrets == {(NameCA :> "7"), (NameCB :> "8") @@ (NameD :> "9")}

Sub(by, to) == [by |-> by, to |-> to]

\* The subschemes of a scheme: none, and lists of {"by": [...], "to": ...}.
ArgSubschemes ==
    { <<>>,
      << Sub(<< <<".*", "b">> >>, <<"x">>), Sub(<< <<".*">> >>, <<"y">>) >>,
      << Sub(<< <<"c">> >>, <<"x">>) >>,
      << Sub(<< <<"d">>, <<"c", "a">> >>, <<"x">>), Sub(<< <<"c", ".">> >>, <<"y">>) >>,
      << Sub(<< <<"c", "b">> >>, <<"x">>), Sub(<<>>, <<"y">>) >>,
      << Sub(<< <<"d">> >>, <<"a">>) >> }

Scheme(from, to, subschemes) == [from |-> from, to |-> to, subschemes |-> subschemes]

Schemes ==
    { Scheme(<<"a">>, <<"n">>, <<>>),
      Scheme(<<"a", "a">>, <<"n">>, << Sub(<< <<"c">> >>, <<"x">>) >>),
      Scheme(<<"a", "b">>, <<"a">>, << Sub(<< <<".*">> >>, <<"n">>) >>),
      Scheme(<<"z">>, <<"n">>, <<>>),
      Scheme(<<"a", "b">>, <<"n">>, << Sub(<< <<"c">> >>, <<"x">>) >>),
      Scheme(<<"a">>, <<"a">>, << Sub(<< <<".*">> >>, <<"n">>) >>),
      Scheme(<<"a">>, <<"a">>, <<>>) }

\* The "schemes" list of a migration file: one or two schemes.
ArgSchemeLists == { <<s>> : s \in Schemes } \cup { <<s, t>> : s, t \in Schemes }

FileNames == {"new.json", "old.json"}

NoFile == [exists |-> FALSE, content |-> <<>>]

InitFiles == ("new.json" :> NoFile) @@ ("old.json" :> [exists |-> TRUE, content |-> <<>>])

---------------------------------------------------------------------------
(* Vault._hide_secrets and the records logged at INFO level *)

\* Mutant: the values are logged as they are.
HideSecretsNot(secrets_by_path) == secrets_by_path

\* {path: {secret_name: "***" for secret_name in secret.keys()} for path,
\* secret in secrets_by_path.items()}
HideSecrets(secrets_by_path) ==
    [i \in DOMAIN secrets_by_path |->
        [path |-> secrets_by_path[i].path,
         secret |-> [secret_name \in DOMAIN secrets_by_path[i].secret |-> "***"]]]

\* One logger.info call: the format string and its arguments.
Info(msg, secrets, path, file) ==
    [msg |-> msg, secrets |-> secrets, path |-> path, file |-> file]

\* An info record whose argument is a masked SecretsByPath.
InfoMasked(msg, secrets_by_path) == Info(msg, HideSecrets(secrets_by_path), <<>>, "")

\* The records a method logs at INFO level, e being what the method did: get
\* logs when loginfo is true (get, backup, the removal loop of delete),
\* _dry_run_logging when the flag is on.
InfoLog(op, dry, args, e) ==
    CASE op = "backup" /\ e.outcome = "fileexists" ->
           <<InfoMasked("Got secrets: %s", e.result)>>
      [] op = "get" /\ e.outcome = "ok" ->
           <<InfoMasked("Got secrets: %s", e.result)>>
      [] op = "backup" /\ e.outcome = "ok" ->
           <<InfoMasked("Got secrets: %s", e.result),
             Info("Backup produced starting from path: %s and saved as: %s", <<>>,
                  args.path, args.file)>>
      [] op = "set" /\ dry ->
           <<InfoMasked("New version would be: %s",
                        <<[path |-> args.path, secret |-> args.secret]>>)>>
      [] op = "add" /\ dry /\ e.outcome = "ok" ->
           <<InfoMasked("New version would be: %s", e.staged)>>
      [] op = "delete" /\ dry /\ e.outcome = "ok" ->
           <<InfoMasked("Secrets would be deleted: %s", e.result)>>
      [] op = "delete" /\ ~dry /\ e.outcome = "ok" ->
           <<InfoMasked("Got secrets: %s", e.result)>>
      [] op = "destroy" /\ dry /\ e.outcome = "ok" ->
           <<InfoMasked("Secrets would be permanently destroyed: %s", e.result)>>
      [] op = "migrate" /\ dry /\ e.outcome = "ok" ->
           <<InfoMasked("Migration resume: %s", e.staged)>>
      [] OTHER -> <<>>

---------------------------------------------------------------------------
(* The state machine: one action per command *)

\* The record of the last command: its name, arguments, the store and the
\* files before it, what Exec reports and what was logged at INFO level.
Done(op, dry, args, e) ==
    [op |-> op, args |-> args, pre |-> store, prefiles |-> files, log |-> e.log,
     outcome |-> e.outcome, result |-> e.result, staged |-> e.staged, bad |-> e.bad,
     info |-> InfoLog(op, dry, args, e)]

NoArgs ==
    [path |-> <<>>, secret |-> EmptySecret, recursive |-> FALSE, new_path |-> <<>>,
     subschemes |-> <<>>, schemes |-> <<>>, file |-> ""]

Init ==
    /\ store \in InitStores
    /\ dry_run = FALSE
    /\ files = InitFiles
    /\ last = [op |-> "init", args |-> NoArgs, pre |-> store, prefiles |-> files,
               log |-> <<>>, outcome |-> "ok", result |-> <<>>, staged |-> <<>>,
               bad |-> <<>>, info |-> <<>>]
    /\ nops = 0

\* A command ran: the store it leaves is kept a tree by the arguments drawn.
Ran(op, dry, args, e) ==
    /\ ProperTree(e.store)
    /\ store' = e.store
    /\ dry_run' = dry
    /\ last' = Done(op, dry, args, e)
    /\ nops' = nops + 1

\* Another command may run.  Every command is a process of its own that
\* starts from the store and the files alone, so a command after one that
\* changed neither does what it does as the first command: only a command
\* that changed something is followed by another.
CanRun ==
    /\ nops < MaxOps
    /\ nops = 0 \/ store # last.pre \/ files # last.prefiles

GetCmd ==
    /\ CanRun
    /\ \E path \in ArgPaths :
          Ran("get", FALSE, [NoArgs EXCEPT !.path = path], VaultGet(store, path))
    /\ UNCHANGED files

BackupCmd ==
    /\ CanRun
    /\ \E path \in ArgPaths, file \in FileNames :
          LET b == VaultBackup(store, files, path, file)
          IN  /\ Ran("backup", FALSE, [NoArgs EXCEPT !.path = path, !.file = file], b.exec)
              /\ files' = b.files

SetCmd ==
    /\ CanRun
    /\ \E dry \in BOOLEAN, path \in ArgPaths \ {<<>>}, secret \in ArgSecrets :
          Ran("set", dry, [NoArgs EXCEPT !.path = path, !.secret = secret],
              VaultSet(store, dry, path, secret, "set"))
    /\ UNCHANGED files

AddCmd ==
    /\ CanRun
    /\ \E dry \in BOOLEAN, path \in ArgPaths \ {<<>>}, secret \in ArgSecrets :
          Ran("add", dry, [NoArgs EXCEPT !.path = path, !.secret = secret],
              VaultAdd(store, dry, path, secret))
    /\ UNCHANGED files

DeleteCmd ==
    /\ CanRun
    /\ \E dry \in BOOLEAN, path \in ArgPaths, recursive \in BOOLEAN :
          Ran("delete", dry, [NoArgs EXCEPT !.path = path, !.recursive = recursive],
              VaultDelete(store, dry, path, recursive))
    /\ UNCHANGED files

DestroyCmd ==
    /\ CanRun
    /\ \E dry \in BOOLEAN, path \in ArgPaths, recursive \in BOOLEAN :
          Ran("destroy", dry, [NoArgs EXCEPT !.path = path, !.recursive = recursive],
              VaultDestroy(store, dry, path, recursive))
    /\ UNCHANGED files

MigrateCmd ==
    /\ CanRun
    /\ \E dry \in BOOLEAN, old_path \in ArgPaths, new_path \in NewPaths,
          subschemes \in ArgSubschemes :
          Ran("migrate", dry,
              [NoArgs EXCEPT !.path = old_path, !.new_path = new_path,
                             !.subschemes = subschemes],
              VaultMigrate(store, dry, old_path, new_path, subschemes))
    /\ UNCHANGED files

MigrateAndDestroy ==
    /\ CanRun
    /\ \E schemes \in ArgSchemeLists :
          Ran("migrate_and_destroy", FALSE, [NoArgs EXCEPT !.schemes = schemes],
              MigrateAndDestroyCmd(store, schemes))
    /\ UNCHANGED files

Next ==
    \/ GetCmd
    \/ BackupCmd
    \/ SetCmd
    \/ AddCmd
    \/ DeleteCmd
    \/ DestroyCmd
    \/ MigrateCmd
    \/ MigrateAndDestroy

Spec == Init /\ [][Next]_vars

---------------------------------------------------------------------------
(* Properties *)

ReadCalls == {"read", "list"}

MutatingCalls == {"write", "delete", "destroy"}

\* The positions of the log of the last command that hold one of `calls'.
Issued(calls) == {i \in DOMAIN last.log : last.log[i].call \in calls}

\* The positions of the log that hold a call of `calls' on path p.
IssuedAt(calls, p) == {i \in Issued(calls) : last.log[i].path = p}

\* The latest version stored at p.
Latest(st, p) == st[p][Len(st[p])]

\* C1: with the dry-run flag on, a set, add, delete, destroy or migrate call
\* issues no write, delete or destroy call on the store and leaves the store
\* as it was before the call.
C1_DryRunLeavesStore ==
    (dry_run /\ last.op \in {"set", "add", "delete", "destroy", "migrate"})
        => (store = last.pre /\ Issued(MutatingCalls) = {})

\* A dry-run migrate that staged a secret, and so would have written.
C1_Witness ==
    /\ dry_run
    /\ last.op = "migrate"
    /\ last.outcome = "ok"
    /\ last.staged # <<>>

\* The last command was a migrate that wrote (flag off) and returned.
Migrated == last.op = "migrate" /\ ~dry_run /\ last.outcome = "ok"

\* The destination the last migrate computes for a name.
RouteOf(n) == MakePath(last.args.new_path, n, last.args.subschemes)

\* The names of the source leaves that the last migrate routes to dest, and
\* the destinations it routes some name to.
RoutedTo(dest) ==
    {n \in UNION {DOMAIN last.result[i].secret : i \in DOMAIN last.result} :
        Truthy(RouteOf(n)) /\ RouteOf(n).path = dest}

Destinations ==
    {RouteOf(n).path : n \in {m \in UNION {DOMAIN last.result[i].secret :
                                              i \in DOMAIN last.result} :
                                Truthy(RouteOf(m))}}

\* The source leaf traversed last among those that hold name n.
LastHolder(n) ==
    CHOOSE i \in DOMAIN last.result :
        /\ n \in DOMAIN last.result[i].secret
        /\ \A j \in DOMAIN last.result : n \in DOMAIN last.result[j].secret => j <= i

\* C2 as stated: every destination of a non-dry-run migrate receives exactly
\* one write, and the version written holds every source entry (name and
\* value) routed to that destination.
C2_OneWriteAllEntries ==
    Migrated =>
        \A i \in DOMAIN last.result : \A n \in DOMAIN last.result[i].secret :
            Truthy(RouteOf(n)) =>
                /\ Cardinality(IssuedAt({"write"}, RouteOf(n).path)) = 1
                /\ n \in DOMAIN Latest(store, RouteOf(n).path).data
                /\ Latest(store, RouteOf(n).path).data[n] = last.result[i].secret[n]

\* C2, amended: every destination of a non-dry-run migrate receives exactly
\* one write and nothing else is written; the version written holds exactly
\* the names routed to that destination, each with the value of the source
\* leaf traversed last among those holding the name.
C2_OneWritePerDestination ==
    Migrated =>
        /\ \A w \in Issued({"write"}) : last.log[w].path \in Destinations
        /\ \A dest \in Destinations :
              /\ Cardinality(IssuedAt({"write"}, dest)) = 1
              /\ DOMAIN Latest(store, dest).data = RoutedTo(dest)
              /\ \A n \in RoutedTo(dest) :
                    Latest(store, dest).data[n] = last.result[LastHolder(n)].secret[n]

\* A migrate wrote once to a destination that two source leaves route the
\* same name to, and a second name besides.
C2_Witness ==
    /\ Migrated
    /\ \E i, j \in DOMAIN last.result : \E n \in DOMAIN last.result[i].secret :
          /\ i < j
          /\ n \in DOMAIN last.result[j].secret
          /\ Truthy(RouteOf(n))
          /\ Cardinality(RoutedTo(RouteOf(n).path)) >= 2
          /\ Cardinality(IssuedAt({"write"}, RouteOf(n).path)) = 1

\* What the first loop of the last migrate_and_destroy does on the store the
\* command found.
MigratePhase == MigrateAll(last.pre, last.args.schemes, 1, <<>>)

\* C3: migrate_and_destroy issues no destroy call before the migrate of every
\* scheme of the list has returned, and once a migrate fails it destroys
\* nothing: every path stored before the command is still stored.
C3_DestroyAfterAllMigrates ==
    last.op = "migrate_and_destroy" =>
        LET phase == MigratePhase
        IN  /\ \A i, j \in DOMAIN last.log :
                  (last.log[i].call = "destroy" /\ last.log[j].by = "migrate") => j < i
            /\ \A k \in DOMAIN last.log :
                  last.log[k].by = "destroy" =>
                      /\ phase.outcome = "ok"
                      /\ k > Len(phase.log)
                      /\ SubSeq(last.log, 1, Len(phase.log)) = phase.log
            /\ phase.outcome # "ok" =>
                  /\ Issued({"destroy"}) = {}
                  /\ last.outcome # "ok"
                  /\ DOMAIN last.pre \subseteq DOMAIN store

\* The first scheme of two was migrated (a write was issued), the second
\* migrate failed, and nothing was destroyed.
C3_Witness ==
    /\ last.op = "migrate_and_destroy"
    /\ Len(last.args.schemes) = 2
    /\ Issued({"write"}) # {}
    /\ last.outcome = "exit"
    /\ last.bad = last.args.schemes[2].from
    /\ Issued({"destroy"}) = {}
    /\ last.args.schemes[1].from \in DOMAIN store

\* Some version of the chain has no deletion time; the highest such version.
HasLive(chain) == \E v \in DOMAIN chain : ~chain[v].deleted

HighestLive(chain) ==
    CHOOSE v \in DOMAIN chain :
        ~chain[v].deleted /\ \A u \in DOMAIN chain : ~chain[u].deleted => u <= v

\* C4: the walk-back of leaf resolution is bounded: get returns or ends with
\* an error on every path, and ends with an error on a leaf all of whose
\* versions are deleted.
C4_WalkBackEnds ==
    last.op = "get" =>
        /\ last.outcome # "loop"
        /\ (/\ last.args.path \in DOMAIN last.pre
            /\ ~HasLive(last.pre[last.args.path])) => last.outcome = "exit"

\* C5: leaf resolution returns the data of the highest-numbered version that
\* has no deletion time, reading one version after the other from the latest
\* down to it: a get of a leaf that has such a version returns exactly that
\* data, and every secret a get returns is the data of the highest
\* non-deleted version of its path.
C5_HighestLiveVersion ==
    last.op = "get" =>
        /\ (/\ last.args.path \in DOMAIN last.pre
            /\ HasLive(last.pre[last.args.path])) =>
              /\ last.outcome = "ok"
              /\ last.result =
                    <<[path |-> last.args.path,
                       secret |-> last.pre[last.args.path]
                                      [HighestLive(last.pre[last.args.path])].data]>>
              /\ Cardinality(IssuedAt({"read"}, last.args.path)) =
                    Len(last.pre[last.args.path])
                        - HighestLive(last.pre[last.args.path]) + 1
        /\ last.outcome = "ok" =>
              \A i \in DOMAIN last.result :
                  /\ last.result[i].path \in DOMAIN last.pre
                  /\ HasLive(last.pre[last.result[i].path])
                  /\ last.result[i].secret =
                        last.pre[last.result[i].path]
                            [HighestLive(last.pre[last.result[i].path])].data

\* A get of a leaf whose versions 3 and 2 are deleted and whose version 1 is
\* not returned the data of version 1.
C5_Witness ==
    /\ last.op = "get"
    /\ last.args.path \in DOMAIN last.pre
    /\ Len(last.pre[last.args.path]) = 3
    /\ last.pre[last.args.path][3].deleted
    /\ last.pre[last.args.path][2].deleted
    /\ ~last.pre[last.args.path][1].deleted
    /\ last.outcome = "ok"
    /\ last.result = <<[path |-> last.args.path, secret |-> VersionData(1)]>>

\* The stored paths at or below a path, and the folders from the path down.
LeavesUnder(st, path) == {p \in DOMAIN st : IsPrefix(path, p)}

FoldersUnder(st, path) ==
    UNION {{SubSeq(p, 1, k) : k \in Len(path)..Len(p)} : p \in LeavesUnder(st, path)}
        \ DOMAIN st

\* C6: on a store tree, a get of a path that is in the tree, every leaf below
\* which has a non-deleted version, returns a dict whose keys are exactly the
\* leaves at or below the path, each once and with its own secret, and lists
\* every folder on the way once.
C6_GetCollectsLeaves ==
    (/\ last.op = "get"
     /\ ProperTree(last.pre)
     /\ LeavesUnder(last.pre, last.args.path) # {}
     /\ \A p \in LeavesUnder(last.pre, last.args.path) : HasLive(last.pre[p]))
        => /\ last.outcome = "ok"
           /\ DictKeys(last.result) = LeavesUnder(last.pre, last.args.path)
           /\ Len(last.result) = Cardinality(LeavesUnder(last.pre, last.args.path))
           /\ \A i \in DOMAIN last.result :
                 last.result[i].secret =
                     last.pre[last.result[i].path]
                         [HighestLive(last.pre[last.result[i].path])].data
           /\ \A q \in FoldersUnder(last.pre, last.args.path) :
                 Cardinality(IssuedAt({"list"}, q)) = 1
           /\ \A p \in LeavesUnder(last.pre, last.args.path) :
                 IssuedAt({"list"}, p) = {}

\* A get of a folder returned leaves of two depths, three in all.
C6_Witness ==
    /\ last.op = "get"
    /\ last.outcome = "ok"
    /\ Len(last.result) = 3
    /\ \E i, j \in DOMAIN last.result :
          /\ Len(last.result[i].path) = Len(last.args.path) + 1
          /\ Len(last.result[j].path) = Len(last.args.path) + 2

\* A path that holds no secret and has stored paths below it.
IsFolder(st, path) ==
    path \notin DOMAIN st /\ \E q \in DOMAIN st : IsProperPrefix(path, q)

\* C7: delete and destroy with recursive false on a folder raise InvalidPath
\* without issuing a delete or destroy call and leave the store unchanged,
\* with the dry-run flag on or off.
C7_FolderNeedsRecursive ==
    (/\ last.op \in {"delete", "destroy"}
     /\ ~last.args.recursive
     /\ IsFolder(last.pre, last.args.path))
        => /\ last.outcome = "invalidpath"
           /\ Issued(MutatingCalls) = {}
           /\ store = last.pre

\* A dry-run destroy of a folder with recursive false was refused.
C7_Witness ==
    /\ last.op = "destroy"
    /\ dry_run
    /\ ~last.args.recursive
    /\ IsFolder(last.pre, last.args.path)
    /\ last.outcome = "invalidpath"

\* C8: a backup to an output file that exists issues no read or list call on
\* the store and leaves the file as it was.
C8_ExistingFileNoStoreAccess ==
    (last.op = "backup" /\ last.prefiles[last.args.file].exists)
        => (Issued(ReadCalls) = {} /\ files = last.prefiles)

\* One of the patterns of a subscheme matches the name, anchored at its start.
PatternMatches(subscheme, n) ==
    \E k \in DOMAIN subscheme.by : MatchAt(subscheme.by[k], 1, n, 1)

\* The reference routing: the new path itself without subschemes, else the new
\* path joined with the suffix of the first subscheme a pattern of which
\* matches, else dropped.
ReferenceRoute(new_path, n, subschemes) ==
    IF subschemes = <<>>
    THEN Some(new_path)
    ELSE IF \E i \in DOMAIN subschemes : PatternMatches(subschemes[i], n)
         THEN Some(new_path \o
                   subschemes[CHOOSE i \in DOMAIN subschemes :
                                 /\ PatternMatches(subschemes[i], n)
                                 /\ \A j \in DOMAIN subschemes :
                                       PatternMatches(subschemes[j], n) => i <= j].to)
         ELSE None

\* The names of the secrets the last command read.
SourceNames == UNION {DOMAIN last.result[i].secret : i \in DOMAIN last.result}

\* C9: the destination migrate computes for every name it read is the
\* reference routing of that name.
C9_RouteIsReference ==
    (last.op = "migrate" /\ last.outcome = "ok") =>
        \A n \in SourceNames :
            RouteOf(n) = ReferenceRoute(last.args.new_path, n, last.args.subschemes)

\* C10: an entry whose name no pattern of any subscheme matches is dropped by
\* migrate: the name is in no staged secret and in no version written, the
\* migrate returns, and the names that are routed are written at their
\* destinations.
C10_UnmatchedDropped ==
    (last.op = "migrate" /\ last.outcome = "ok" /\ last.args.subschemes # <<>>) =>
        \A n \in SourceNames :
            IF \A k \in DOMAIN last.args.subschemes :
                   ~PatternMatches(last.args.subschemes[k], n)
            THEN /\ \A i \in DOMAIN last.staged : n \notin DOMAIN last.staged[i].secret
                 /\ \A w \in Issued({"write"}) :
                       n \notin DOMAIN Latest(store, last.log[w].path).data
            ELSE /\ \E i \in DOMAIN last.staged : n \in DOMAIN last.staged[i].secret
                 /\ ~dry_run =>
                       \E w \in Issued({"write"}) :
                           n \in DOMAIN Latest(store, last.log[w].path).data

\* C11: after a non-dry-run migrate every staged destination has one version
\* more than before, and that version holds exactly the staged secret: a name
\* the destination held before that is not staged is not in it.
C11_DestinationNotMerged ==
    Migrated =>
        \A i \in DOMAIN last.staged :
            /\ last.staged[i].path \in DOMAIN store
            /\ Latest(store, last.staged[i].path).data = last.staged[i].secret
            /\ DOMAIN last.staged[i].secret = RoutedTo(last.staged[i].path)
            /\ last.staged[i].path \in DOMAIN last.pre =>
                  /\ Len(store[last.staged[i].path]) = Len(last.pre[last.staged[i].path]) + 1
                  /\ \A n \in DOMAIN Latest(last.pre, last.staged[i].path).data :
                        n \notin DOMAIN last.staged[i].secret =>
                            n \notin DOMAIN Latest(store, last.staged[i].path).data

\* A migrate wrote to a destination that held a name that was not staged.
C11_Witness ==
    /\ Migrated
    /\ \E i \in DOMAIN last.staged :
          /\ last.staged[i].path \in DOMAIN last.pre
          /\ \E n \in DOMAIN Latest(last.pre, last.staged[i].path).data :
                n \notin DOMAIN last.staged[i].secret
          /\ Len(store[last.staged[i].path]) = Len(last.pre[last.staged[i].path]) + 1

\* The secret a get finds at a leaf: the data of its highest non-deleted
\* version.
Current(st, p) == st[p][HighestLive(st[p])].data

\* C12: a non-dry-run add on a leaf that has a non-deleted version issues
\* exactly one write, at the path; the version written holds the names of the
\* current secret and of the delta, with the delta's value for every name of
\* the delta and the current value for the others; no other path changes.
C12_AddWritesUnion ==
    (/\ last.op = "add"
     /\ ~dry_run
     /\ last.args.path \in DOMAIN last.pre
     /\ HasLive(last.pre[last.args.path]))
        => /\ last.outcome = "ok"
           /\ Cardinality(Issued({"write"})) = 1
           /\ Cardinality(IssuedAt({"write"}, last.args.path)) = 1
           /\ Issued({"delete", "destroy"}) = {}
           /\ store[last.args.path] =
                 Append(last.pre[last.args.path], Latest(store, last.args.path))
           /\ DOMAIN Latest(store, last.args.path).data =
                 DOMAIN Current(last.pre, last.args.path) \cup DOMAIN last.args.secret
           /\ \A n \in DOMAIN last.args.secret :
                 Latest(store, last.args.path).data[n] = last.args.secret[n]
           /\ \A n \in DOMAIN Current(last.pre, last.args.path) \ DOMAIN last.args.secret :
                 Latest(store, last.args.path).data[n] =
                     Current(last.pre, last.args.path)[n]
           /\ \A p \in DOMAIN last.pre \ {last.args.path} :
                 p \in DOMAIN store /\ store[p] = last.pre[p]
           /\ DOMAIN store = DOMAIN last.pre

\* An add wrote over a secret that shares a name with the delta, with another
\* value, and holds a name the delta does not.
C12_Witness ==
    /\ last.op = "add"
    /\ ~dry_run
    /\ last.outcome = "ok"
    /\ last.args.path \in DOMAIN last.pre
    /\ HasLive(last.pre[last.args.path])
    /\ \E n \in DOMAIN last.args.secret \cap DOMAIN Current(last.pre, last.args.path) :
          Current(last.pre, last.args.path)[n] # last.args.secret[n]
    /\ DOMAIN Current(last.pre, last.args.path) \ DOMAIN last.args.secret # {}
    /\ IssuedAt({"write"}, last.args.path) # {}

\* C13: a non-dry-run set issues one call on the store, a write at the path,
\* and no read; the new latest version at the path is the given mapping, after
\* the versions that were there; no other path changes.
C13_SetReplaces ==
    (last.op = "set" /\ ~dry_run)
        => /\ last.outcome = "ok"
           /\ last.log = <<Call("set", "write", last.args.path)>>
           /\ Issued(ReadCalls) = {}
           /\ Latest(store, last.args.path).data = last.args.secret
           /\ store[last.args.path] =
                 IF last.args.path \in DOMAIN last.pre
                 THEN Append(last.pre[last.args.path],
                             [data |-> last.args.secret, deleted |-> FALSE])
                 ELSE <<[data |-> last.args.secret, deleted |-> FALSE]>>
           /\ DOMAIN store = DOMAIN last.pre \cup {last.args.path}
           /\ \A p \in DOMAIN last.pre \ {last.args.path} : store[p] = last.pre[p]

\* A set wrote over a leaf whose latest version held a name that the given
\* mapping does not hold.
C13_Witness ==
    /\ last.op = "set"
    /\ ~dry_run
    /\ last.args.path \in DOMAIN last.pre
    /\ DOMAIN Latest(last.pre, last.args.path).data \ DOMAIN last.args.secret # {}
    /\ Latest(store, last.args.path).data = last.args.secret
    /\ DOMAIN last.pre \ {last.args.path} # {}

\* The commands that resolve the subtree of their path argument.
Resolving == {"get", "delete", "destroy", "migrate"}

\* C14: a get, delete, destroy or migrate whose path holds no secret and has
\* none below ends with SystemExit naming that path; and whenever one of them
\* ends with SystemExit, the path named is one that holds no secret and has
\* none below, it was read once and listed once, these were the last calls,
\* no write, delete or destroy call was issued and the store is unchanged.
C14_InvalidPathAborts ==
    last.op \in Resolving =>
        /\ LeavesUnder(last.pre, last.args.path) = {} =>
              (last.outcome = "exit" /\ last.bad = last.args.path)
        /\ last.outcome = "exit" =>
              /\ LeavesUnder(last.pre, last.bad) = {}
              /\ Cardinality(IssuedAt({"read"}, last.bad)) = 1
              /\ Cardinality(IssuedAt({"list"}, last.bad)) = 1
              /\ Len(last.log) >= 2
              /\ last.log[Len(last.log) - 1].call = "read"
              /\ last.log[Len(last.log) - 1].path = last.bad
              /\ last.log[Len(last.log)].call = "list"
              /\ last.log[Len(last.log)].path = last.bad
              /\ Issued(MutatingCalls) = {}
              /\ store = last.pre

\* A recursive delete, flag off, of a path that is not in a store that holds
\* secrets ended with SystemExit.
C14_Witness ==
    /\ last.op = "delete"
    /\ ~dry_run
    /\ last.args.recursive
    /\ DOMAIN last.pre # {}
    /\ LeavesUnder(last.pre, last.args.path) = {}
    /\ last.outcome = "exit"
    /\ last.bad = last.args.path

\* The values stored or given, in a cycle, and two ways of changing the
\* values of a store and nothing else: every value becomes the next one of
\* the cycle, or every value becomes the same one.
ValueList ==
    <<"1", "2", "3", "4", "5", "6", "7", "8", "9", "v1", "v2", "v3", "v4", "v5">>

NextValue == [v \in Range(ValueList) |->
                 ValueList[((CHOOSE i \in DOMAIN ValueList : ValueList[i] = v)
                                % Len(ValueList)) + 1]]

SameValue == [v \in Range(ValueList) |-> "0"]

Revalued(st, f) ==
    [p \in DOMAIN st |->
        [i \in DOMAIN st[p] |->
            [data |-> [n \in DOMAIN st[p][i].data |-> f[st[p][i].data[n]]],
             deleted |-> st[p][i].deleted]]]

\* What the last command does and logs on another store.
RunOn(st) ==
    CASE last.op = "get" -> VaultGet(st, last.args.path)
      [] last.op = "set" ->
           VaultSet(st, dry_run, last.args.path, last.args.secret, "set")
      [] last.op = "add" -> VaultAdd(st, dry_run, last.args.path, last.args.secret)
      [] last.op = "delete" ->
           VaultDelete(st, dry_run, last.args.path, last.args.recursive)
      [] last.op = "destroy" ->
           VaultDestroy(st, dry_run, last.args.path, last.args.recursive)
      [] OTHER ->
           VaultMigrate(st, dry_run, last.args.path, last.args.new_path,
                        last.args.subschemes)

InfoOn(st) == InfoLog(last.op, dry_run, last.args, RunOn(st))

\* The commands whose info output is masked: get, and the dry runs.
Masked ==
    \/ last.op = "get"
    \/ dry_run /\ last.op \in {"set", "add", "delete", "destroy", "migrate"}

\* The dict a command masks for its info record.
Logged ==
    CASE last.op \in {"get", "delete", "destroy"} -> last.result
      [] last.op = "set" -> <<[path |-> last.args.path, secret |-> last.args.secret]>>
      [] OTHER -> last.staged

\* C15: the dict logged at INFO level by a get or a dry run has the paths of
\* the dict that was masked, in the same order, the same names under each
\* path, and "***" for every value; and the same command on a store that
\* differs in its secret values only logs the same records.
C15_InfoIsMasked ==
    Masked =>
        /\ \A k \in DOMAIN last.info :
              /\ Len(last.info[k].secrets) = Len(Logged)
              /\ \A i \in DOMAIN Logged :
                    /\ last.info[k].secrets[i].path = Logged[i].path
                    /\ DOMAIN last.info[k].secrets[i].secret = DOMAIN Logged[i].secret
                    /\ \A n \in DOMAIN Logged[i].secret :
                          last.info[k].secrets[i].secret[n] = "***"
        /\ last.outcome = "ok" => Len(last.info) = 1
        /\ \A f \in {NextValue, SameValue} : InfoOn(Revalued(last.pre, f)) = last.info

\* A dry-run add logged the masked union of the secret it read and the
\* delta, two names at least, on a store that holds values.
C15_Witness ==
    /\ last.op = "add"
    /\ dry_run
    /\ Len(last.info) = 1
    /\ Len(last.info[1].secrets) = 1
    /\ Cardinality(DOMAIN last.info[1].secrets[1].secret) >= 2
    /\ DOMAIN last.info[1].secrets[1].secret \ DOMAIN last.args.secret # {}
    /\ Revalued(last.pre, NextValue) # last.pre
    /\ InfoOn(Revalued(last.pre, NextValue)) = last.info

\* C16: in an add, delete, destroy or migrate call every read and list call
\* on the store comes before the first write, delete or destroy call, and a
\* dry run issues none of the latter.
C16_ReadsBeforeWrites ==
    last.op \in {"add", "delete", "destroy", "migrate"} =>
        /\ \A i \in Issued(ReadCalls) : \A j \in Issued(MutatingCalls) : i < j
        /\ dry_run => Issued(MutatingCalls) = {}
        /\ (~dry_run /\ last.outcome = "ok" /\ last.op # "migrate") =>
              Issued(MutatingCalls) # {}

\* A recursive delete read two leaves and then deleted both.
C16_Witness ==
    /\ last.op = "delete"
    /\ ~dry_run
    /\ last.outcome = "ok"
    /\ Cardinality(Issued({"read"})) >= 2
    /\ Cardinality(Issued({"delete"})) >= 2
    /\ \A i \in Issued(ReadCalls) : \A j \in Issued(MutatingCalls) : i < j

\* The last command was a delete or destroy, flag off, that passes the
\* recursive check and whose subtree can be collected.
Removes ==
    /\ last.op \in {"delete", "destroy"}
    /\ ~dry_run
    /\ last.args.recursive \/ last.args.path \in DOMAIN last.pre
    /\ LeavesUnder(last.pre, last.args.path) # {}
    /\ \A p \in LeavesUnder(last.pre, last.args.path) : HasLive(last.pre[p])

\* C17: such a delete (destroy) returns, having issued exactly one delete
\* (destroy) call for each leaf at or below the path and no other write,
\* delete or destroy call.  After a destroy no leaf at or below the path is
\* stored; after a delete each of them has its latest version marked deleted
\* and nothing else changed; every leaf outside the path keeps its versions.
C17_OneRemovalPerLeaf ==
    Removes =>
        /\ last.outcome = "ok"
        /\ \A p \in LeavesUnder(last.pre, last.args.path) :
              Cardinality(IssuedAt({last.op}, p)) = 1
        /\ \A i \in Issued(MutatingCalls) :
              /\ last.log[i].call = last.op
              /\ last.log[i].path \in LeavesUnder(last.pre, last.args.path)
        /\ \A p \in DOMAIN last.pre \ LeavesUnder(last.pre, last.args.path) :
              p \in DOMAIN store /\ store[p] = last.pre[p]
        /\ last.op = "destroy" =>
              /\ LeavesUnder(store, last.args.path) = {}
              /\ DOMAIN store = DOMAIN last.pre \ LeavesUnder(last.pre, last.args.path)
        /\ last.op = "delete" =>
              /\ DOMAIN store = DOMAIN last.pre
              /\ \A p \in LeavesUnder(last.pre, last.args.path) :
                    /\ Len(store[p]) = Len(last.pre[p])
                    /\ Latest(store, p).deleted
                    /\ Latest(store, p).data = Latest(last.pre, p).data
                    /\ \A v \in 1..(Len(store[p]) - 1) : store[p][v] = last.pre[p][v]

\* A destroy of a folder removed the two leaves below it and kept a leaf
\* outside it.
C17_Witness ==
    /\ last.op = "destroy"
    /\ ~dry_run
    /\ last.outcome = "ok"
    /\ Cardinality(LeavesUnder(last.pre, last.args.path)) = 2
    /\ Cardinality(Issued({"destroy"})) = 2
    /\ LeavesUnder(store, last.args.path) = {}
    /\ DOMAIN store # {}

\* The last command was a migrate_and_destroy that returned.
MigratedAndDestroyed == last.op = "migrate_and_destroy" /\ last.outcome = "ok"

\* The schemes of the last migrate_and_destroy whose source path is at or
\* above p.
Covering(p) ==
    {k \in DOMAIN last.args.schemes : IsPrefix(last.args.schemes[k].from, p)}

\* The name n of the source leaf p is routed nowhere by the schemes that
\* cover p.
DroppedEntry(p, n) ==
    /\ Covering(p) # {}
    /\ \A k \in Covering(p) :
          ~Truthy(MakePath(last.args.schemes[k].to, n, last.args.schemes[k].subschemes))

\* The versions stored at q that the last command wrote.
NewVersions(q) ==
    {i \in DOMAIN store[q] : q \in DOMAIN last.pre => i > Len(last.pre[q])}

\* No migrate of the last command wrote at or below the source path of a
\* scheme.
NoDestinationUnderSource ==
    \A w \in Issued({"write"}) : Covering(last.log[w].path) = {}

\* Some source leaf holds the name n with the value v, and a scheme that
\* covers the leaf routes n: an entry equal to (n, v) is migrated.
RoutedEntry(n, v) ==
    \E p \in {q \in DOMAIN last.pre : HasLive(last.pre[q])} :
        /\ n \in DOMAIN Current(last.pre, p)
        /\ Current(last.pre, p)[n] = v
        /\ \E k \in Covering(p) :
              Truthy(MakePath(last.args.schemes[k].to, n, last.args.schemes[k].subschemes))

\* What C18 says of an entry that the routing dropped: it is not at its
\* source any more and, unless an equal entry of another leaf is migrated,
\* it is in no version the command wrote.
DroppedEntriesLost ==
    \A p \in {q \in DOMAIN last.pre : HasLive(last.pre[q])} :
        \A n \in DOMAIN Current(last.pre, p) :
            DroppedEntry(p, n) =>
                /\ p \notin DOMAIN store
                /\ ~RoutedEntry(n, Current(last.pre, p)[n]) =>
                      \A q \in DOMAIN store : \A i \in NewVersions(q) :
                          ~(/\ n \in DOMAIN store[q][i].data
                            /\ store[q][i].data[n] = Current(last.pre, p)[n])

\* Every leaf that was at or below a source path got a destroy call and is
\* not stored any more.
SourceLeavesDestroyed ==
    \A k \in DOMAIN last.args.schemes :
        \A p \in LeavesUnder(last.pre, last.args.schemes[k].from) :
            IssuedAt({"destroy"}, p) # {} /\ p \notin DOMAIN store

C19_LaterLeafWins ==
    (last.op = "migrate" /\ last.outcome = "ok") =>
        \A i, j \in DOMAIN last.result :
            \A n \in DOMAIN last.result[i].secret \cap DOMAIN last.result[j].secret :
                (i < j /\ Truthy(RouteOf(n))) =>
                    /\ RouteOf(n).path \in DictKeys(last.staged)
                    /\ DictGet(last.staged, RouteOf(n).path, EmptySecret)[n] =
                          last.result[LastHolder(n)].secret[n]
                    /\ last.result[i].secret[n] # last.result[LastHolder(n)].secret[n] =>
                          /\ \A k \in DOMAIN last.staged :
                                n \in DOMAIN last.staged[k].secret =>
                                    last.staged[k].secret[n] # last.result[i].secret[n]
                          /\ \A q \in DOMAIN store : \A v \in NewVersions(q) :
                                n \in DOMAIN store[q][v].data =>
                                    store[q][v].data[n] # last.result[i].secret[n]

\* A migrate, flag off, read one name with two values in two leaves and
\* wrote the second.
C19_Witness ==
    /\ Migrated
    /\ \E i, j \in DOMAIN last.result :
          \E n \in DOMAIN last.result[i].secret \cap DOMAIN last.result[j].secret :
              /\ i < j
              /\ last.result[i].secret[n] # last.result[j].secret[n]
              /\ Truthy(RouteOf(n))
              /\ Latest(store, RouteOf(n).path).data[n] = last.result[j].secret[n]

UnderFolderSource(d) ==
    \E k \in Covering(d) :
        \/ last.args.schemes[k].from = d
        \/ last.args.schemes[k].from \notin DOMAIN MigratePhase.store

\* Some scheme has a source path above d that holds no secret itself when
\* the migrates have written, or has d as its source path, d being a leaf
\* before the command.
BelowFolderOrOnLeaf(d) ==
    \E k \in Covering(d) :
        \/ last.args.schemes[k].from \notin DOMAIN MigratePhase.store
        \/ last.args.schemes[k].from = d /\ d \in DOMAIN last.pre

---------------------------------------------------------------------------
\* add on a path that is not in the store.

\* The path given to the last command holds no secret and has none below.
MissingPath == LeavesUnder(last.pre, last.args.path) = {}

\* C21: an add, flag on or off, on a path that holds no secret and has none
\* below ends with SystemExit naming that path: the only calls issued are one
\* read and one list of that path, no write is issued, nothing is staged or
\* logged as a new version, the store is unchanged and holds no secret at
\* that path.
C21_AddOnMissingPathAborts ==
    (last.op = "add" /\ MissingPath) =>
        /\ last.outcome = "exit"
        /\ last.bad = last.args.path
        /\ last.log = <<Call("add", "read", last.args.path),
                        Call("add", "list", last.args.path)>>
        /\ Issued(MutatingCalls) = {}
        /\ last.staged = <<>>
        /\ last.info = <<>>
        /\ store = last.pre
        /\ last.args.path \notin DOMAIN store

\* An add, flag off, of a secret with entries on a path that is not in a
\* store that holds secrets elsewhere ended with SystemExit.
C21_Witness ==
    /\ last.op = "add"
    /\ ~dry_run
    /\ last.args.secret # EmptySecret
    /\ DOMAIN last.pre # {}
    /\ MissingPath
    /\ last.outcome = "exit"
    /\ last.bad = last.args.path
    /\ IssuedAt({"list"}, last.args.path) # {}

====
